---------------------------- MODULE Spec2Model ----------------------------
(***************************************************************************)
(* Model of the ThreeMaze component (src/components/ThreeMaze.js): the     *)
(* refs it keeps, its input handlers, the pointer-lock handshake, the      *)
(* per-frame animate callback with its AABB collision test, and the        *)
(* effect's init / cleanup lifecycle.                                      *)
(*                                                                         *)
(* Numbers are fixed point.  Lengths are in thousandths of a scene unit    *)
(* (1.8 is 1800), angles in thousandths of a radian (0.002 is 2), time in  *)
(* milliseconds, and unit vectors are scaled by Unit.  Math.PI / 2 is the  *)
(* quarter turn HalfPi; Sin and Cos are exact at its multiples and within  *)
(* 1/1000 elsewhere.                                                       *)
(***************************************************************************)
EXTENDS Integers, Sequences, FiniteSets, TLC

\* ------------------------------------------------------------ arithmetic

\* Scale of a unit vector's components and of Sin / Cos.
Unit == 10 ^ 4

Abs(a) == IF a >= 0 THEN a ELSE -a

\* a / b rounded to the nearest integer, symmetric about 0 as a float
\* division is (b > 0).
RDiv(a, b) == IF a >= 0 THEN (2 * a + b) \div (2 * b)
                        ELSE -((2 * (-a) + b) \div (2 * b))

RECURSIVE SqrtIter(_, _)
SqrtIter(n, r) ==
  LET next == (r + n \div r) \div 2
  IN  IF next >= r THEN r ELSE SqrtIter(n, next)

\* Math.sqrt: the integer square root of n >= 0 (rounded down).
Sqrt(n) == IF n = 0 THEN 0 ELSE SqrtIter(n, n)

\* Math.PI / 2, in thousandths of a radian.
HalfPi == 1571

\* An angle brought into [-HalfPi, HalfPi] with the same sine.
ReduceAngle(a) ==
  LET r0 == a % (4 * HalfPi)
      r1 == IF r0 > 2 * HalfPi THEN r0 - 4 * HalfPi ELSE r0
  IN  IF r1 > HalfPi THEN 2 * HalfPi - r1
      ELSE IF r1 < -HalfPi THEN -(2 * HalfPi) - r1
      ELSE r1

\* sin r for |r| <= HalfPi / 2 by its series, scaled by Unit.
SinSeries(r) ==
  LET u  == RDiv(r * r, 100)
      t3 == 10 * Unit - RDiv(10 * u, 42)
      t2 == 10 * Unit - RDiv(RDiv(u * t3, Unit), 20)
      t1 == 10 * Unit - RDiv(RDiv(u * t2, Unit), 6)
  IN  RDiv(r * t1, Unit)

\* cos r for |r| <= HalfPi / 2 by its series, scaled by Unit.
CosSeries(r) ==
  LET u  == RDiv(r * r, 100)
      t3 == 10 * Unit - RDiv(10 * u, 30)
      t2 == 10 * Unit - RDiv(RDiv(u * t3, Unit), 12)
      t1 == 10 * Unit - RDiv(RDiv(u * t2, Unit), 2)
  IN  RDiv(t1, 10)

\* Math.sin and Math.cos of an angle in thousandths of a radian.
Sin(a) ==
  LET r == ReduceAngle(a)
  IN  IF Abs(r) <= HalfPi \div 2 THEN SinSeries(r)
      ELSE IF r > 0 THEN CosSeries(HalfPi - r)
      ELSE -CosSeries(HalfPi + r)

Cos(a) == Sin(a + HalfPi)

\* ------------------------------------------------------------ vectors

Vec(a, b, c) == [x |-> a, y |-> b, z |-> c]

ZeroVec == Vec(0, 0, 0)

\* Vector3.add
VecAdd(v, w) == Vec(v.x + w.x, v.y + w.y, v.z + w.z)

\* Vector3.multiplyScalar applied to a vector scaled by Unit: s * v / Unit.
MultiplyScalar(v, s) == Vec(RDiv(v.x * s, Unit), RDiv(v.y * s, Unit), RDiv(v.z * s, Unit))

\* Vector3.length of a vector scaled by Unit.
VecLength(v) == Sqrt(v.x * v.x + v.y * v.y + v.z * v.z)

\* Vector3.normalize: divideScalar(length() || 1), so the zero vector stays.
Normalize(v) ==
  LET len == VecLength(v)
  IN  IF len = 0 THEN v
      ELSE Vec(RDiv(v.x * Unit, len), RDiv(v.y * Unit, len), RDiv(v.z * Unit, len))

\* Rotation of v about the Y axis by angle a.
RotateY(v, a) == Vec(RDiv(v.x * Cos(a) + v.z * Sin(a), Unit),
                     v.y,
                     RDiv(v.z * Cos(a) - v.x * Sin(a), Unit))

\* Rotation of v about the X axis by angle a.
RotateX(v, a) == Vec(v.x,
                     RDiv(v.y * Cos(a) - v.z * Sin(a), Unit),
                     RDiv(v.y * Sin(a) + v.z * Cos(a), Unit))

\* Vector3.applyQuaternion(camera.quaternion).  The camera's quaternion is
\* kept equal to its Euler rotation (x = pitch, y = yaw, z = 0) in the
\* default order 'XYZ', which is the rotation Rx(pitch) * Ry(yaw): the yaw
\* turn about Y is applied first, the pitch turn about the world X axis last.
applyQuaternion(v, rot) == RotateX(RotateY(v, rot.y), rot.x)

\* ------------------------------------------------------------ geometry

\* playerRef.current.height (1.8) and playerRef.current.speed (5.0 units per
\* second, which is 5 thousandths of a unit per millisecond).
height == 1800
speed == 5

\* Half of the player's box in x and z (0.3).
HalfWidth == 300

\* mouse sensitivity: 0.002 radians per unit of mouse movement.
sensitivity == 2

\* new THREE.BoxGeometry(10, 3, 0.5)
WallWidth == 10000
WallHeight == 3000
WallDepth == 500

\* wallPositions: position and rotation.y of every wall (rotation x, z are 0).
wallPositions ==
  << [position |-> Vec(0, 1500, -5000),    rotation |-> 0],
     [position |-> Vec(5000, 1500, 0),     rotation |-> HalfPi],
     [position |-> Vec(-5000, 1500, 0),    rotation |-> HalfPi],
     [position |-> Vec(0, 1500, 5000),     rotation |-> 0],
     [position |-> Vec(5000, 1500, 10000), rotation |-> HalfPi],
     [position |-> Vec(10000, 1500, 5000), rotation |-> 0] >>

SetMin(S) == CHOOSE m \in S : \A n \in S : m <= n
SetMax(S) == CHOOSE m \in S : \A n \in S : m >= n

\* new THREE.Box3().setFromObject(wall): the axis-aligned box around the
\* eight corners of the wall's geometry after the wall's rotation and
\* translation.
setFromObject(w) ==
  LET corners == { VecAdd(RotateY(Vec(sx * (WallWidth \div 2),
                                       sy * (WallHeight \div 2),
                                       sz * (WallDepth \div 2)), w.rotation),
                          w.position) : sx \in {-1, 1}, sy \in {-1, 1}, sz \in {-1, 1} }
  IN  [min |-> Vec(SetMin({c.x : c \in corners}), SetMin({c.y : c \in corners}),
                   SetMin({c.z : c \in corners})),
       max |-> Vec(SetMax({c.x : c \in corners}), SetMax({c.y : c \in corners}),
                   SetMax({c.z : c \in corners}))]

\* The bounding boxes of the walls createMaze builds, one per entry of
\* wallPositions and in its order.
mazeWalls == [i \in 1..Len(wallPositions) |-> setFromObject(wallPositions[i])]

\* createMaze: every wall is pushed onto wallsRef.current, after whatever
\* the array already holds (only the walls' boxes are kept here).
createMaze(ws) == ws \o mazeWalls

\* The player's box built by checkWallCollisions around a position.
playerBBox(p) ==
  [min |-> Vec(p.x - HalfWidth, p.y - height, p.z - HalfWidth),
   max |-> Vec(p.x + HalfWidth, p.y, p.z + HalfWidth)]

\* intersectsBox as it would be if boxes that only touch did not count.
intersectsBoxStrict(a, b) ==
  ~ (\/ b.max.x <= a.min.x \/ b.min.x >= a.max.x
     \/ b.max.y <= a.min.y \/ b.min.y >= a.max.y
     \/ b.max.z <= a.min.z \/ b.min.z >= a.max.z)

\* Box3.intersectsBox: false exactly when the boxes are apart on some axis.
intersectsBox(a, b) ==
  ~ (\/ b.max.x < a.min.x \/ b.min.x > a.max.x
     \/ b.max.y < a.min.y \/ b.min.y > a.max.y
     \/ b.max.z < a.min.z \/ b.min.z > a.max.z)

\* checkWallCollisions as it would be if its loop returned after the first wall.
checkWallCollisionsFirstOnly(p, ws) ==
  Len(ws) > 0 /\ intersectsBox(playerBBox(p), ws[1])

\* checkWallCollisions(position) against the walls ws.
checkWallCollisions(p, ws) ==
  \E i \in 1..Len(ws) : intersectsBox(playerBBox(p), ws[i])

\* resolve as it would be without the collision test.
resolveUnchecked(p, v, ws) == VecAdd(p, v)

\* resolve as it would be if a rejected move pushed the camera back by the
\* player's half width instead of leaving it in place.
resolvePushBack(p, v, ws) ==
  LET newPosition == VecAdd(p, v)
  IN  IF ~ checkWallCollisions(newPosition, ws)
      THEN newPosition
      ELSE VecAdd(p, Vec(0, 0, HalfWidth))

\* The end of animate: newPosition = position + velocity, copied into the
\* camera's position only when checkWallCollisions(newPosition) is false.
resolve(p, v, ws) ==
  LET newPosition == VecAdd(p, v)
  IN  IF ~ checkWallCollisions(newPosition, ws) THEN newPosition ELSE p

\* ------------------------------------------------------------ movement

\* animate's direction: (0, 0, -1) turned by the camera, y zeroed, normalized.
direction(rot) ==
  Normalize([applyQuaternion(Vec(0, 0, -Unit), rot) EXCEPT !.y = 0])

\* animate's rightVector: (1, 0, 0) turned by the camera, normalized.
rightVector(rot) == Normalize(applyQuaternion(Vec(Unit, 0, 0), rot))

\* The velocity animate builds from the four move flags; s is
\* playerRef.current.speed * delta.
moveVelocity(ms, rot, s) ==
  LET v0 == ZeroVec
      v1 == IF ms.forward  THEN VecAdd(v0, MultiplyScalar(direction(rot), s)) ELSE v0
      v2 == IF ms.backward THEN VecAdd(v1, MultiplyScalar(direction(rot), -s)) ELSE v1
      v3 == IF ms.right    THEN VecAdd(v2, MultiplyScalar(rightVector(rot), s)) ELSE v2
      v4 == IF ms.left     THEN VecAdd(v3, MultiplyScalar(rightVector(rot), -s)) ELSE v3
  IN  v4

\* ------------------------------------------------------------ input

\* The flag a key code is mapped to by onKeyDown / onKeyUp ("none": no case).
keyFlag(code) ==
  CASE code \in {"ArrowUp", "KeyW"}    -> "forward"
    [] code \in {"ArrowLeft", "KeyA"}  -> "left"
    [] code \in {"ArrowDown", "KeyS"}  -> "backward"
    [] code \in {"ArrowRight", "KeyD"} -> "right"
    [] OTHER -> "none"

\* keyEvent as it would be if a recognized key also cleared the other flags.
keyEventExclusive(ms, code, pressed) ==
  IF keyFlag(code) = "none"
  THEN ms
  ELSE [f \in DOMAIN ms |-> IF f = keyFlag(code) THEN pressed ELSE FALSE]

\* moveStateRef.current after onKeyDown (pressed) or onKeyUp (not pressed).
keyEvent(ms, code, pressed) ==
  IF keyFlag(code) = "none" THEN ms ELSE [ms EXCEPT ![keyFlag(code)] = pressed]

\* mouseRotation as it would be without the limit on the vertical angle.
mouseRotationNoClamp(rot, locked, movementX, movementY) ==
  IF locked
  THEN [horizontal |-> rot.horizontal - movementX * sensitivity,
        vertical |-> rot.vertical - movementY * sensitivity]
  ELSE rot

\* mouseRotation as it would be without the test of isLocked.
mouseRotationUnguarded(rot, locked, movementX, movementY) ==
  LET v == rot.vertical - movementY * sensitivity
  IN  [horizontal |-> rot.horizontal - movementX * sensitivity,
       vertical |-> IF v > HalfPi THEN HalfPi ELSE IF v < -HalfPi THEN -HalfPi ELSE v]

\* rotationRef.current after onMouseMove(movementX, movementY).
mouseRotation(rot, locked, movementX, movementY) ==
  IF locked
  THEN LET h  == rot.horizontal - movementX * sensitivity
           v  == rot.vertical - movementY * sensitivity
           lo == IF HalfPi < v THEN HalfPi ELSE v
       IN  [horizontal |-> h, vertical |-> IF -HalfPi > lo THEN -HalfPi ELSE lo]
  ELSE rot

\* ------------------------------------------------------------ state

VARIABLES
  mounted,       \* the effect has run and its cleanup has not: listeners registered
  inits,         \* times init() has run; the current canvas is canvas number inits
  rafLoops,      \* animate chains kept alive by requestAnimationFrame(animate)
  walls,         \* wallsRef.current: the walls' bounding boxes
  position,      \* cameraRef.current.position
  camRot,        \* cameraRef.current.rotation: x (pitch) and y (yaw)
  rotation,      \* rotationRef.current: horizontal, vertical
  moveState,     \* moveStateRef.current
  held,          \* event.code of the keys now down on the keyboard
  velocity,      \* playerRef.current.velocity
  isLocked,      \* pointerRef.current.isLocked
  lockListener,  \* onPointerLockChange is registered on document
  pendingReq,    \* canvas with a requestPointerLock() not yet answered (0: none)
  lockElement,   \* document.pointerLockElement as a canvas number (0: null)
  sinceLast,     \* clockRef.current: milliseconds since its last getDelta()
  running,       \* animate callbacks of the current frame still to run
  frames,        \* display frames begun
  frameRuns,     \* calls of animate made by the current display frame
  delta,         \* the delta read by the last call of animate
  prevPosition,  \* the camera's position when the last call of animate began
  last           \* the handler that took the last step

refVars == <<walls, position, camRot, rotation, moveState, velocity>>
lockVars == <<isLocked, lockListener, pendingReq, lockElement>>
frameVars == <<sinceLast, running, frames, frameRuns, delta, prevPosition>>
vars == <<mounted, inits, rafLoops, refVars, held, lockVars, frameVars, last>>

\* ------------------------------------------------------------ bounds, inputs

\* Runs of the effect (init), display frames, the largest |yaw| explored,
\* and the most keys down at once.
MaxInits == 2
MaxFrames == 1
MaxYaw == 786
MaxHeld == 3

\* event.code of the key events explored with the frames (KeyboardCodes
\* has every code).
KeyCodes == {"KeyW", "KeyD"}

\* <<movementX, movementY>> of the mouse events explored.
LookMoves == {<<-393, -800>>, <<393, 800>>}

\* Milliseconds between two display frames.
Deltas == {16, 1000, 1200}

\* cameraRef.current.position.set(1, playerRef.current.height, 1)
StartPosition == Vec(1000, height, 1000)

NoMove == [forward |-> FALSE, backward |-> FALSE, left |-> FALSE, right |-> FALSE]

\* ------------------------------------------------------------ handlers

\* No frame's callbacks are running: handlers never interleave with them.
Idle == running = 0

\* onPointerLockChange: isLocked becomes whether the lock element is the
\* current canvas; without the listener the event reaches no handler.
pointerLockChange(locked, listening, element, canvas) ==
  IF listening THEN element = canvas ELSE locked

\* The position animate leaves: unchanged unless the pointer is locked.
animatePosition(locked, p, v, ws) == IF locked THEN resolve(p, v, ws) ELSE p

\* The velocity animate leaves: rebuilt only when the pointer is locked.
animateVelocity(locked, old, ms, rot, dt) ==
  IF locked THEN moveVelocity(ms, rot, speed * dt) ELSE old

\* The state the component is in once the effect has first run: init() and
\* then one direct call of animate(), whose getDelta() starts the clock.
Init ==
  /\ mounted = TRUE
  /\ inits = 1
  /\ rafLoops = 1
  /\ walls = createMaze(<< >>)
  /\ position = StartPosition
  /\ camRot = [x |-> 0, y |-> 0]
  /\ rotation = [horizontal |-> 0, vertical |-> 0]
  /\ moveState = NoMove
  /\ held = {}
  /\ velocity = ZeroVec
  /\ isLocked = FALSE
  /\ lockListener = FALSE
  /\ pendingReq = 0
  /\ lockElement = 0
  /\ sinceLast = 0
  /\ running = 0
  /\ frames = 0
  /\ frameRuns = 0
  /\ delta = 0
  /\ prevPosition = StartPosition
  /\ last = "init"

\* onKeyDown: the flag of the key's case is set.  The keyboard repeats the
\* event for a key that stays down.
onKeyDown(code) ==
  /\ mounted /\ Idle
  /\ moveState' = keyEvent(moveState, code, TRUE)
  /\ held' = held \cup {code}
  /\ Cardinality(held') <= MaxHeld
  /\ last' = "keydown"
  /\ UNCHANGED <<mounted, inits, rafLoops, walls, position, camRot, rotation,
                 velocity, lockVars, frameVars>>

\* onKeyUp: the flag of the key's case is cleared.  The keyboard sends the
\* event for a key that was down.
onKeyUp(code) ==
  /\ mounted /\ Idle
  /\ code \in held
  /\ moveState' = keyEvent(moveState, code, FALSE)
  /\ held' = held \ {code}
  /\ last' = "keyup"
  /\ UNCHANGED <<mounted, inits, rafLoops, walls, position, camRot, rotation,
                 velocity, lockVars, frameVars>>

\* onMouseMove: the look angles, then the camera's rotation set from them.
onMouseMove(movementX, movementY) ==
  /\ mounted /\ Idle
  /\ rotation' = mouseRotation(rotation, isLocked, movementX, movementY)
  /\ Abs(rotation'.horizontal) <= MaxYaw
  /\ camRot' = IF isLocked
               THEN [x |-> rotation'.vertical, y |-> rotation'.horizontal]
               ELSE camRot
  /\ last' = "mousemove"
  /\ UNCHANGED <<mounted, inits, rafLoops, walls, position, moveState,
                 velocity, lockVars, frameVars, held>>

\* onMouseClick: a lock request for the current canvas, and the
\* pointerlockchange listener, unless isLocked.
onMouseClick ==
  /\ mounted /\ Idle
  /\ pendingReq' = IF ~ isLocked THEN inits ELSE pendingReq
  /\ lockListener' = IF ~ isLocked THEN TRUE ELSE lockListener
  /\ last' = "click"
  /\ UNCHANGED <<mounted, inits, rafLoops, refVars, isLocked, lockElement, frameVars, held>>

\* The browser grants the pending request of the current canvas (a canvas
\* taken out of the document is never granted) and fires pointerlockchange.
PlatformGrant ==
  /\ mounted /\ Idle
  /\ pendingReq = inits
  /\ pendingReq' = 0
  /\ lockElement' = inits
  /\ isLocked' = pointerLockChange(isLocked, lockListener, lockElement', inits)
  /\ last' = "grant"
  /\ UNCHANGED <<mounted, inits, rafLoops, refVars, lockListener, frameVars, held>>

\* The browser refuses the pending request (pointerlockerror: no handler).
PlatformDeny ==
  /\ Idle
  /\ pendingReq # 0
  /\ pendingReq' = 0
  /\ last' = "deny"
  /\ UNCHANGED <<mounted, inits, rafLoops, refVars, isLocked, lockListener,
                 lockElement, frameVars, held>>

\* The browser ends the lock (Esc, focus loss, the canvas leaving the
\* document) and fires pointerlockchange.
PlatformRevoke ==
  /\ Idle
  /\ lockElement # 0
  /\ lockElement' = 0
  /\ isLocked' = pointerLockChange(isLocked, lockListener, lockElement', inits)
  /\ last' = "revoke"
  /\ UNCHANGED <<mounted, inits, rafLoops, refVars, lockListener, pendingReq, frameVars, held>>

\* A display frame begins dt milliseconds after the previous one: the
\* browser will run every callback requestAnimationFrame has queued.
BeginFrame(dt) ==
  /\ Idle
  /\ frames < MaxFrames
  /\ frames' = frames + 1
  /\ running' = rafLoops
  /\ frameRuns' = 0
  /\ sinceLast' = sinceLast + dt
  /\ last' = "frame"
  /\ UNCHANGED <<mounted, inits, rafLoops, refVars, lockVars, delta, prevPosition, held>>

\* One call of animate by the frame: it queues itself again, reads the
\* clock's delta, and when locked rebuilds the velocity and moves the camera
\* through the collision test.
animate ==
  /\ running > 0
  /\ running' = running - 1
  /\ frameRuns' = frameRuns + 1
  /\ delta' = sinceLast
  /\ sinceLast' = 0
  /\ prevPosition' = position
  /\ velocity' = animateVelocity(isLocked, velocity, moveState, camRot, delta')
  /\ position' = animatePosition(isLocked, position, velocity', walls)
  /\ last' = "animate"
  /\ UNCHANGED <<mounted, inits, rafLoops, walls, camRot, rotation, moveState,
                 lockVars, frames, held>>

\* The effect's cleanup: the canvas leaves the document and every listener
\* is removed.  The refs keep their values and no animation frame is
\* cancelled.
cleanup ==
  /\ mounted /\ Idle
  /\ mounted' = FALSE
  /\ lockListener' = FALSE
  /\ last' = "cleanup"
  /\ UNCHANGED <<inits, rafLoops, refVars, isLocked, pendingReq, lockElement, frameVars, held>>

\* The effect runs again on the same refs: init() makes a new camera at the
\* start position, a new canvas and a new clock, and createMaze pushes its
\* walls onto wallsRef.current; then animate() is called directly, with a
\* delta of 0 from the clock it starts.
runEffect ==
  /\ ~ mounted /\ Idle
  /\ inits < MaxInits
  /\ mounted' = TRUE
  /\ inits' = inits + 1
  /\ rafLoops' = rafLoops + 1
  /\ walls' = createMaze(walls)
  /\ camRot' = [x |-> 0, y |-> 0]
  /\ sinceLast' = 0
  /\ delta' = 0
  /\ prevPosition' = StartPosition
  /\ velocity' = animateVelocity(isLocked, velocity, moveState, camRot', delta')
  /\ position' = animatePosition(isLocked, StartPosition, velocity', walls')
  /\ last' = "init"
  /\ UNCHANGED <<rotation, moveState, lockVars, running, frames, frameRuns, held>>

Next ==
  \/ \E code \in KeyCodes : onKeyDown(code)
  \/ \E code \in KeyCodes : onKeyUp(code)
  \/ \E m \in LookMoves : onMouseMove(m[1], m[2])
  \/ onMouseClick
  \/ PlatformGrant
  \/ PlatformDeny
  \/ PlatformRevoke
  \/ \E dt \in Deltas : BeginFrame(dt)
  \/ animate
  \/ cleanup
  \/ runEffect

Spec == Init /\ [][Next]_vars

\* ------------------------------------------------------------ the keyboard

\* event.code of every key with a case in the two switches, and of one key
\* with none.
KeyboardCodes ==
  {"KeyW", "ArrowUp", "KeyS", "ArrowDown", "KeyA", "ArrowLeft", "KeyD",
   "ArrowRight", "KeyQ"}

\* The component under key, look and pointer-lock events alone.
NextKeys ==
  \/ \E code \in KeyboardCodes : onKeyDown(code)
  \/ \E code \in KeyboardCodes : onKeyUp(code)
  \/ \E m \in LookMoves : onMouseMove(m[1], m[2])
  \/ onMouseClick
  \/ PlatformGrant
  \/ PlatformRevoke

SpecKeys == Init /\ [][NextKeys]_vars

\* ------------------------------------------------------------ the resolve step alone

\* The collision-checked commit of animate applied to chosen positions,
\* velocities and wall sets, the camera possibly starting inside a wall.
MaxResolveSteps == 2

ResolvePositions ==
  { StartPosition, Vec(0, height, -5000), Vec(0, height, 0), Vec(1000, 6000, 1000) }

ResolveVelocities ==
  { ZeroVec, Vec(0, 0, -5450), Vec(0, 0, -5449), Vec(0, 0, -7000),
    Vec(4000, 0, 0), Vec(300, 0, -200), Vec(0, -1200, 0) }

ResolveWalls == { << >>, << mazeWalls[1] >>, mazeWalls }

InitResolve ==
  /\ mounted = TRUE
  /\ inits = 1
  /\ rafLoops = 1
  /\ walls \in ResolveWalls
  /\ position \in ResolvePositions
  /\ camRot = [x |-> 0, y |-> 0]
  /\ rotation = [horizontal |-> 0, vertical |-> 0]
  /\ moveState = NoMove
  /\ held = {}
  /\ velocity = ZeroVec
  /\ isLocked = TRUE
  /\ lockListener = TRUE
  /\ pendingReq = 0
  /\ lockElement = 1
  /\ sinceLast = 0
  /\ running = 0
  /\ frames = 0
  /\ frameRuns = 0
  /\ delta = 0
  /\ prevPosition = position
  /\ last = "start"

\* One resolve step with the proposed velocity v.
ResolveStep(v) ==
  /\ frames < MaxResolveSteps
  /\ frames' = frames + 1
  /\ velocity' = v
  /\ prevPosition' = position
  /\ position' = resolve(position, v, walls)
  /\ last' = "resolve"
  /\ UNCHANGED <<mounted, inits, rafLoops, walls, camRot, rotation, moveState,
                 lockVars, sinceLast, running, frameRuns, delta, held>>

\* One locked call of animate on the same state, dt milliseconds after the
\* previous one: the velocity is rebuilt from the move flags (all clear
\* here) and goes through the same resolve step.
ResolveTick(dt) ==
  /\ frames < MaxResolveSteps
  /\ frames' = frames + 1
  /\ delta' = dt
  /\ prevPosition' = position
  /\ velocity' = animateVelocity(isLocked, velocity, moveState, camRot, dt)
  /\ position' = animatePosition(isLocked, position, velocity', walls)
  /\ last' = "tick"
  /\ UNCHANGED <<mounted, inits, rafLoops, walls, camRot, rotation, moveState,
                 lockVars, sinceLast, running, frameRuns, held>>

NextResolve ==
  \/ \E v \in ResolveVelocities : ResolveStep(v)
  \/ \E dt \in Deltas : ResolveTick(dt)

SpecResolve == InitResolve /\ [][NextResolve]_vars

\* ------------------------------------------------------------ properties

\* The closed intervals [a1, a2] and [b1, b2] share a point.
Overlap(a1, a2, b1, b2) == a1 <= b2 /\ b1 <= a2

\* The open intervals (a1, a2) and (b1, b2) share a point.
StrictOverlap(a1, a2, b1, b2) == a1 < b2 /\ b1 < a2

\* The player's box at p (x and z within 0.3 of p, y from p.y - height to
\* p.y) and the wall box w overlap on all three axes.
PlayerMeetsWall(p, w) ==
  /\ Overlap(p.x - HalfWidth, p.x + HalfWidth, w.min.x, w.max.x)
  /\ Overlap(p.y - height, p.y, w.min.y, w.max.y)
  /\ Overlap(p.z - HalfWidth, p.z + HalfWidth, w.min.z, w.max.z)

\* The same with more than a face, an edge or a corner in common.
PlayerEntersWall(p, w) ==
  /\ StrictOverlap(p.x - HalfWidth, p.x + HalfWidth, w.min.x, w.max.x)
  /\ StrictOverlap(p.y - height, p.y, w.min.y, w.max.y)
  /\ StrictOverlap(p.z - HalfWidth, p.z + HalfWidth, w.min.z, w.max.z)

InsideWall(p, ws) == \E i \in DOMAIN ws : PlayerMeetsWall(p, ws[i])

\* The candidate position of the last tick or resolve step.
Candidate == VecAdd(prevPosition, velocity)

C3_AllOrNothing ==
  last = "resolve" =>
    position = IF InsideWall(Candidate, walls) THEN prevPosition ELSE Candidate

\* A rejected step whose candidate box only touched a wall.
C3_Witness ==
  /\ last = "resolve"
  /\ velocity # ZeroVec
  /\ position = prevPosition
  /\ InsideWall(Candidate, walls)
  /\ \A i \in DOMAIN walls : ~ PlayerEntersWall(Candidate, walls[i])

\* The bounds on t from lo <= p + t * d <= hi, as fractions <<n, m>> with
\* m > 0, and whether the constraint holds when d = 0.
SlabLower(p, d, lo, hi) ==
  IF d > 0 THEN {<<lo - p, d>>} ELSE IF d < 0 THEN {<<p - hi, -d>>} ELSE {}
SlabUpper(p, d, lo, hi) ==
  IF d > 0 THEN {<<hi - p, d>>} ELSE IF d < 0 THEN {<<p - lo, -d>>} ELSE {}
SlabFixed(p, d, lo, hi) == d # 0 \/ (lo <= p /\ p <= hi)

\* Somewhere on the straight path from a to b the player's box meets the
\* wall box w: some t in [0, 1] puts a + t * (b - a) within the wall grown
\* by the player's box.
PathMeetsWall(a, b, w) ==
  LET lox == w.min.x - HalfWidth
      hix == w.max.x + HalfWidth
      loy == w.min.y
      hiy == w.max.y + height
      loz == w.min.z - HalfWidth
      hiz == w.max.z + HalfWidth
      lower == {<<0, 1>>} \cup SlabLower(a.x, b.x - a.x, lox, hix)
                 \cup SlabLower(a.y, b.y - a.y, loy, hiy)
                 \cup SlabLower(a.z, b.z - a.z, loz, hiz)
      upper == {<<1, 1>>} \cup SlabUpper(a.x, b.x - a.x, lox, hix)
                 \cup SlabUpper(a.y, b.y - a.y, loy, hiy)
                 \cup SlabUpper(a.z, b.z - a.z, loz, hiz)
  IN  /\ SlabFixed(a.x, b.x - a.x, lox, hix)
      /\ SlabFixed(a.y, b.y - a.y, loy, hiy)
      /\ SlabFixed(a.z, b.z - a.z, loz, hiz)
      /\ \A l \in lower : \A u \in upper : l[1] * u[2] <= u[1] * l[2]

\* C2: no accepted tick carries the player's box across a wall: the box
\* swept along the straight path from the position before the tick to the
\* position after it meets no wall box, whatever the frame delta.
C2_NoTunnelling ==
  (last = "animate" /\ position # prevPosition)
    => \A i \in DOMAIN walls : ~ PathMeetsWall(prevPosition, position, walls[i])

\* C4: the velocity of a tick has no vertical component, so the player's y
\* is the player height in every reachable state.
C4_NoVerticalMotion == velocity.y = 0 /\ position.y = height

\* The velocity built from the forward direction -Z and the right direction
\* +X turned by the yaw alone.
YawOnlyVelocity(ms, yaw, s) ==
  LET f == Normalize(RotateY(Vec(0, 0, -Unit), yaw))
      r == Normalize(RotateY(Vec(Unit, 0, 0), yaw))
      k == (IF ms.forward THEN 1 ELSE 0) - (IF ms.backward THEN 1 ELSE 0)
      j == (IF ms.right THEN 1 ELSE 0) - (IF ms.left THEN 1 ELSE 0)
  IN  VecAdd(MultiplyScalar(f, k * s), MultiplyScalar(r, j * s))

\* C5: the pitch never affects horizontal movement: the x and z of a
\* tick's velocity are those given by the move flags, the frame delta and
\* the yaw alone.
C5_PitchIrrelevant ==
  (last = "animate" /\ isLocked) =>
    /\ velocity.x = YawOnlyVelocity(moveState, camRot.y, speed * delta).x
    /\ velocity.z = YawOnlyVelocity(moveState, camRot.y, speed * delta).z

\* C6: the vertical look angle lies in [-HalfPi, HalfPi] in every
\* reachable state, and so does the pitch the camera is given.
C6_PitchClamped ==
  /\ -HalfPi <= rotation.vertical /\ rotation.vertical <= HalfPi
  /\ -HalfPi <= camRot.x /\ camRot.x <= HalfPi

\* A look event has driven the vertical angle onto the limit.
C6_Witness ==
  last = "mousemove" /\ isLocked /\ Abs(rotation.vertical) = HalfPi

C8_OncePerFrame ==
  /\ frameRuns <= 1
  /\ (frames > 0 /\ running = 0) => frameRuns = 1

\* C9: the lock follows click -> request -> grant -> locked and
\* revoke -> unlocked: isLocked becomes true only on a grant of a pending
\* request, a click while unlocked makes a request and a click while
\* locked makes none, a grant locks, and every revoke unlocks.
C9_LockStateMachine ==
  [][/\ (~ isLocked /\ isLocked') => (last' = "grant" /\ pendingReq # 0)
     /\ (last' = "click" /\ ~ isLocked) => pendingReq' # 0
     /\ (last' = "click" /\ isLocked) => pendingReq' = pendingReq
     /\ last' = "grant" => isLocked'
     /\ last' = "revoke" => ~ isLocked']_vars

\* C10: with forward and right set and backward and left clear, the squared
\* magnitude of the tick's velocity is 2 * (speed * delta)^2 (50 at speed 5
\* and delta 1), here to within the rounding of the fixed-point components.
C10_DiagonalMagnitude ==
  (/\ last = "animate" /\ isLocked
   /\ moveState = [forward |-> TRUE, backward |-> FALSE, left |-> FALSE, right |-> TRUE])
    => LET s  == speed * delta
           m2 == velocity.x * velocity.x + velocity.y * velocity.y
                   + velocity.z * velocity.z
       IN  Abs(m2 - 2 * s * s) <= (2 * s * s) \div 100 + 4 * s + 4

\* C11: a zero proposed velocity leaves the position exactly as it was,
\* whether or not the player's box meets a wall there and whatever the wall
\* set; so does a locked tick with all four move flags clear, whose velocity
\* is zero.
C11_ZeroVelocityIdentity ==
  /\ (last = "resolve" /\ velocity = ZeroVec) => position = prevPosition
  /\ (last = "tick" /\ isLocked /\ moveState = NoMove)
       => (velocity = ZeroVec /\ position = prevPosition)

\* A zero velocity has been resolved, or a locked tick with no flag set has
\* run after some time, at a position inside a wall.
C11_Witness ==
  /\ InsideWall(prevPosition, walls)
  /\ position = prevPosition
  /\ \/ last = "resolve" /\ velocity = ZeroVec
     \/ last = "tick" /\ isLocked /\ moveState = NoMove /\ delta > 0

\* The intent each recognized key code stands for.
Intent ==
  [KeyW |-> "forward", ArrowUp |-> "forward", KeyS |-> "backward",
   ArrowDown |-> "backward", KeyA |-> "left", ArrowLeft |-> "left",
   KeyD |-> "right", ArrowRight |-> "right"]

\* The flags ms with the intent of code set to pressed and the others as
\* they were, or ms itself for a code that stands for no intent.
IntentAfter(ms, code, pressed) ==
  IF code \in DOMAIN Intent
  THEN [f \in DOMAIN ms |-> IF f = Intent[code] THEN pressed ELSE ms[f]]
  ELSE ms

\* C12: a key-down sets and a key-up clears exactly the flag of the key's
\* intent (W/Up forward, S/Down backward, A/Left left, D/Right right) and
\* leaves the other three as they were; a key with any other code leaves
\* all four as they were; and no key event changes the position, the
\* orientation or the lock state.  The key of the event is the one that
\* went down or came up (one of those down, when the key-down is a repeat).
C12_KeyEventFrame ==
  [][last' \in {"keydown", "keyup"} =>
       LET keys == IF last' = "keyup" THEN held \ held'
                   ELSE IF held' # held THEN held' \ held ELSE held
       IN  /\ position' = position
           /\ camRot' = camRot
           /\ rotation' = rotation
           /\ lockVars' = lockVars
           /\ \E code \in keys :
                moveState' = IntentAfter(moveState, code, last' = "keydown")]_vars

\* A key has come up while the pointer was locked, the camera turned, a
\* key with no intent down, and the flag of another intent still set.
C12_Witness ==
  /\ last = "keyup"
  /\ isLocked /\ camRot.y # 0
  /\ "KeyQ" \in held
  /\ moveState.left /\ ~ moveState.backward

\* C13: from the start position (1, 1.8, 1) in the maze of six walls the
\* player's box meets no wall box in any reachable state, whatever the key,
\* look, lock and lifecycle events and the frame deltas.
C13_NeverInsideWall == ~ InsideWall(position, walls)

\* A locked tick proposed a move into a wall and the position was kept.
C13_Witness ==
  /\ last = "animate" /\ isLocked
  /\ velocity # ZeroVec
  /\ InsideWall(Candidate, walls)
  /\ position = prevPosition
  /\ ~ InsideWall(position, walls)

\* C14: wallsRef.current holds exactly one wall per entry of wallPositions
\* (six), each with the box made for it, in every state after
\* initialization: no tick, input event, lock transition, cleanup or
\* repeated initialization adds, removes or changes a wall.
C14_RegistryFixed ==
  /\ Len(walls) = Len(wallPositions)
  /\ walls = mazeWalls

\* C15: with every key event delivered, each move flag is true exactly
\* when at least one of the two keys of its intent (KeyW or ArrowUp for
\* forward, and so on) is down.
C15_FlagIffKeyHeld ==
  \A f \in DOMAIN moveState :
    moveState[f] <=> (\E code \in held \cap DOMAIN Intent : Intent[code] = f)

=============================================================================
